---- MODULE Spec2Model ----
(***************************************************************************)
(* Model of make_shorts_cli.py: the prompt, scene detection with the       *)
(* sequential fallback, the duration-based selection and the sequential    *)
(* ffmpeg render loop.                                                     *)
(*                                                                         *)
(* Times that the code holds as floats (detected scene bounds, the probed  *)
(* duration) are counted in ticks, Tick ticks to the second; int(x) on     *)
(* such a value is Trunc.  Values the code holds as whole seconds (the     *)
(* clip length, the fallback bounds, a job's start) are integers of        *)
(* seconds and are scaled by Tick where they meet a float.                 *)
(***************************************************************************)
EXTENDS Integers, Sequences, FiniteSets

\* ---- bounds of the model ----
Tick == 2
MaxTick == 6
MaxScenes == 3
MaxProbe == 7
MaxDur == 2
MaxN == 11
SmallN == 3
NegN == 2
MaxEnd == 2
MaxLen == 3
MaxRc == 2

\* ---- program constants ----
DEFAULT_N == 5
DEFAULT_DUR == 30

VARIABLES pc, n_shorts, short_dur, scenes, probe, chosen, i, running,
          jobs, files, log, fault, failed

vars == <<pc, n_shorts, short_dur, scenes, probe, chosen, i, running,
          jobs, files, log, fault, failed>>

\* ---- helpers for Python built-ins ----
Min(a, b) == IF a <= b THEN a ELSE b

Max(a, b) == IF a >= b THEN a ELSE b

\* int(x) of a float x given in ticks: truncation toward zero, in seconds
Trunc(x) == IF x >= 0 THEN x \div Tick ELSE -((-x) \div Tick)

\* range(n): the indices 0..n-1, empty for n <= 0
Range(n) == [k \in 1..Max(n, 0) |-> k - 1]

\* s[:n] : the first n elements for n >= 0, all but the last -n for n < 0
SliceTo(s, n) ==
    IF n >= 0 THEN SubSeq(s, 1, Min(n, Len(s)))
              ELSE SubSeq(s, 1, Max(Len(s) + n, 0))

\* the sort key of pick_top_scenes: lambda s: s[1] - s[0]
SceneKey(s) == s[2] - s[1]

\* ---- what the prompt can deliver ----
\* int(input()) is any integer; a line that does not parse gives the default
NChoices == ((0 - NegN)..SmallN) \cup {MaxN}

DurChoices == (0 - 1)..MaxDur

\* ---- external collaborators ----
\* detect_scenes: timeline-ordered, non-overlapping (start, end) pairs in ticks
ScenePairs == {p \in (0..MaxTick) \X (0..MaxTick) : p[1] < p[2]}

Ordered(s) == \A k \in 1..(Len(s) - 1) : s[k][2] <= s[k + 1][1]

detect_scenes ==
    UNION {{s \in [1..m -> ScenePairs] : Ordered(s)} : m \in 0..MaxScenes}

\* ffprobe: the process fails, prints text float() rejects, or prints a duration
ProbeOutcomes ==
    {[status |-> "exec_error", value |-> 0], [status |-> "parse_error", value |-> 0]}
    \cup {[status |-> "ok", value |-> d] : d \in 0..MaxProbe}

NoProbe == [status |-> "none", value |-> 0]

get_video_length_seconds(o) == IF o.status = "ok" THEN o.value ELSE 0

\* make_sequential_scenes without the clamp to the probed duration
make_sequential_scenes_unclamped(o, n, clip_len) ==
    LET starts == [k \in DOMAIN Range(n) |-> Range(n)[k] * clip_len]
    IN  [k \in DOMAIN starts |-> <<starts[k] * Tick, (starts[k] + clip_len) * Tick>>]

\* ---- Fallback Sequential Scenes ----
make_sequential_scenes(o, n, clip_len) ==
    LET total == Trunc(get_video_length_seconds(o))
        starts == [k \in DOMAIN Range(n) |-> Range(n)[k] * clip_len]
    IN  [k \in DOMAIN starts |->
            <<starts[k] * Tick, Min(starts[k] + clip_len, total) * Tick>>]

\* an insertion step that puts x in front of the elements it ties with
InsertByKeyDesc_unstable(acc, x) ==
    LET p == Cardinality({j \in 1..Len(acc) : SceneKey(acc[j]) > SceneKey(x)})
    IN  SubSeq(acc, 1, p) \o <<x>> \o SubSeq(acc, p + 1, Len(acc))

\* the sort without reverse=True: stable, ascending
InsertByKeyAsc(acc, x) ==
    LET p == Cardinality({j \in 1..Len(acc) : SceneKey(acc[j]) <= SceneKey(x)})
    IN  SubSeq(acc, 1, p) \o <<x>> \o SubSeq(acc, p + 1, Len(acc))

RECURSIVE scenes_sorted_ascending(_)
scenes_sorted_ascending(s) ==
    IF s = <<>> THEN <<>>
    ELSE InsertByKeyAsc(scenes_sorted_ascending(SubSeq(s, 1, Len(s) - 1)), s[Len(s)])

\* ---- Pick Top Scenes ----
\* one step of the stable descending sort: x goes behind every element whose
\* key is at least its own
InsertByKeyDesc(acc, x) ==
    LET p == Cardinality({j \in 1..Len(acc) : SceneKey(acc[j]) >= SceneKey(x)})
    IN  SubSeq(acc, 1, p) \o <<x>> \o SubSeq(acc, p + 1, Len(acc))

RECURSIVE scenes_sorted(_)
scenes_sorted(s) ==
    IF s = <<>> THEN <<>>
    ELSE InsertByKeyDesc(scenes_sorted(SubSeq(s, 1, Len(s) - 1)), s[Len(s)])

pick_top_scenes(s, n) ==
    IF s = <<>> THEN <<>> ELSE SliceTo(scenes_sorted(s), n)

\* ---- Create Short via FFmpeg ----
RECURSIVE Digits(_)
Digits(k) == IF k < 10 THEN <<k>> ELSE Append(Digits(k \div 10), k % 10)

\* format(k, "02d"): the decimal digits of k, zero-filled to width 2
Fmt02(k) == IF Len(Digits(k)) < 2 THEN <<0>> \o Digits(k) ELSE Digits(k)

\* the file name numbered with the enumerate index itself, from 00
out_path_zero_based(ix) ==
    [dir |-> "shorts", stem |-> "short_", digits |-> Fmt02(ix), ext |-> ".mp4"]

\* os.path.join("shorts", f"short_{i+1:02d}.mp4") for the enumerate index ix
out_path(ix) ==
    [dir |-> "shorts", stem |-> "short_", digits |-> Fmt02(ix + 1), ext |-> ".mp4"]

\* ffmpeg -y: the destination is replaced by what this job wrote
WriteFile(fs, p, k, st) ==
    {f \in fs : f.path # p} \cup {[path |-> p, job |-> k, state |-> st]}

\* a file an earlier run of the program left in shorts/
PreviousRunFiles == {[path |-> out_path(0), job |-> 0, state |-> "complete"]}

\* ---- the program ----
NoFault == [kind |-> "none", returncode |-> 0]

\* nothing has been probed, selected, rendered or printed yet
Blank ==
    /\ probe = NoProbe
    /\ chosen = <<>>
    /\ i = 0
    /\ running = FALSE
    /\ jobs = <<>>
    /\ log = <<>>
    /\ fault = NoFault
    /\ failed = 0

Init ==
    /\ pc = "input"
    /\ files \in SUBSET PreviousRunFiles
    /\ n_shorts = 0
    /\ short_dur = 0
    /\ scenes = <<>>
    /\ Blank

\* lines 127-142: the three prompts
ReadInputs ==
    /\ pc = "input"
    /\ n_shorts' \in NChoices \cup {DEFAULT_N}
    /\ short_dur' \in DurChoices \cup {DEFAULT_DUR}
    /\ pc' = "acquire"
    /\ UNCHANGED <<scenes, probe, chosen, i, running, jobs, files, log, fault, failed>>

\* lines 145-150: a local path is taken as it is, a URL is downloaded
Acquire ==
    /\ pc = "acquire"
    /\ pc' = "detect"
    /\ log' = Append(log, [msg |-> "Video downloaded at:", job |-> 0])
    /\ UNCHANGED <<n_shorts, short_dur, scenes, probe, chosen, i, running, jobs,
                   files, fault, failed>>

\* line 29: check_call raises when yt-dlp exits non-zero
DownloadFails ==
    /\ pc = "acquire"
    /\ pc' = "fault"
    /\ fault' = [kind |-> "CalledProcessError(yt_dlp)", returncode |-> 1]
    /\ UNCHANGED <<n_shorts, short_dur, scenes, probe, chosen, i, running, jobs,
                   files, log, failed>>

\* line 153
DetectScenes ==
    /\ pc = "detect"
    /\ scenes' \in detect_scenes
    /\ pc' = IF scenes' = <<>> THEN "fallback" ELSE "select"
    /\ UNCHANGED <<n_shorts, short_dur, probe, chosen, i, running, jobs, files,
                   log, fault, failed>>

\* lines 154-156
Fallback ==
    /\ pc = "fallback"
    /\ scenes = <<>>
    /\ \E o \in ProbeOutcomes :
          /\ probe' = o
          /\ scenes' = make_sequential_scenes(o, n_shorts, short_dur)
    /\ log' = Append(log, [msg |-> "No scenes detected. Using sequential fallback.",
                           job |-> 0])
    /\ pc' = "select"
    /\ UNCHANGED <<n_shorts, short_dur, chosen, i, running, jobs, files, fault, failed>>

\* line 159
Select ==
    /\ pc = "select"
    /\ chosen' = pick_top_scenes(scenes, n_shorts)
    /\ i' = 0
    /\ pc' = "render"
    /\ UNCHANGED <<n_shorts, short_dur, scenes, probe, running, jobs, files, log,
                   fault, failed>>

\* a loop that renders each scene for its own length instead of short_dur
StartJob_scene_length ==
    /\ pc = "render"
    /\ ~running
    /\ i < Len(chosen)
    /\ LET sstart == chosen[i + 1][1]
           send == chosen[i + 1][2]
           out == out_path(i)
       IN  /\ jobs' = Append(jobs, [index |-> i, start |-> Trunc(sstart),
                                    duration |-> Trunc(send - sstart), out |-> out,
                                    status |-> "running"])
           /\ log' = log \o <<[msg |-> "Creating short ->", job |-> i + 1],
                              [msg |-> "FFmpeg input:", job |-> i + 1],
                              [msg |-> "FFmpeg output:", job |-> i + 1]>>
    /\ running' = TRUE
    /\ UNCHANGED <<pc, n_shorts, short_dur, scenes, probe, chosen, i, files,
                   fault, failed>>

\* lines 162-167 and 90-118: the loop takes the next chosen scene, builds the
\* job and blocks in subprocess.run
StartJob ==
    /\ pc = "render"
    /\ ~running
    /\ i < Len(chosen)
    /\ LET sstart == chosen[i + 1][1]
           out == out_path(i)
       IN  /\ jobs' = Append(jobs, [index |-> i, start |-> Trunc(sstart),
                                    duration |-> short_dur, out |-> out,
                                    status |-> "running"])
           /\ log' = log \o <<[msg |-> "Creating short ->", job |-> i + 1],
                              [msg |-> "FFmpeg input:", job |-> i + 1],
                              [msg |-> "FFmpeg output:", job |-> i + 1]>>
    /\ running' = TRUE
    /\ UNCHANGED <<pc, n_shorts, short_dur, scenes, probe, chosen, i, files,
                   fault, failed>>

\* lines 118-119, 168: ffmpeg exits 0, the loop goes on to the next scene
EncoderSucceeds ==
    /\ pc = "render"
    /\ running
    /\ files' = WriteFile(files, jobs[Len(jobs)].out, i + 1, "complete")
    /\ jobs' = [jobs EXCEPT ![Len(jobs)].status = "done"]
    /\ log' = Append(log, [msg |-> "Finished ->", job |-> i + 1])
    /\ i' = i + 1
    /\ running' = FALSE
    /\ UNCHANGED <<pc, n_shorts, short_dur, scenes, probe, chosen, fault, failed>>

\* a create_short that prints the stderr but raises nothing, so that the loop
\* goes on to the next scene
EncoderFails_swallowed ==
    /\ pc = "render"
    /\ running
    /\ \/ files' = files
       \/ files' = WriteFile(files, jobs[Len(jobs)].out, i + 1, "partial")
    /\ jobs' = [jobs EXCEPT ![Len(jobs)].status = "failed"]
    /\ log' = log \o <<[msg |-> "ffmpeg failed - stderr:", job |-> i + 1],
                       [msg |-> "proc.stderr", job |-> i + 1]>>
    /\ failed' = i + 1
    /\ i' = i + 1
    /\ running' = FALSE
    /\ UNCHANGED <<pc, n_shorts, short_dur, scenes, probe, chosen, fault>>

\* lines 119-122: ffmpeg exits non-zero; its stderr is printed and
\* CalledProcessError leaves the loop and ends the program.  ffmpeg may or
\* may not have left a partial destination file behind.
EncoderFails ==
    /\ pc = "render"
    /\ running
    /\ \E rc \in 1..MaxRc :
          fault' = [kind |-> "CalledProcessError(ffmpeg)", returncode |-> rc]
    /\ \/ files' = files
       \/ files' = WriteFile(files, jobs[Len(jobs)].out, i + 1, "partial")
    /\ jobs' = [jobs EXCEPT ![Len(jobs)].status = "failed"]
    /\ log' = log \o <<[msg |-> "ffmpeg failed - stderr:", job |-> i + 1],
                       [msg |-> "proc.stderr", job |-> i + 1]>>
    /\ failed' = i + 1
    /\ running' = FALSE
    /\ pc' = "fault"
    /\ UNCHANGED <<n_shorts, short_dur, scenes, probe, chosen, i>>

\* line 170: the loop is exhausted
Finish ==
    /\ pc = "render"
    /\ ~running
    /\ i >= Len(chosen)
    /\ log' = Append(log, [msg |-> "DONE!", job |-> 0])
    /\ pc' = "done"
    /\ UNCHANGED <<n_shorts, short_dur, scenes, probe, chosen, i, running, jobs,
                   files, fault, failed>>

Next ==
    \/ ReadInputs
    \/ Acquire
    \/ DownloadFails
    \/ DetectScenes
    \/ Fallback
    \/ Select
    \/ StartJob
    \/ EncoderSucceeds
    \/ EncoderFails
    \/ Finish

Spec == Init /\ [][Next]_vars

\* ---- the selector alone, on every interval sequence within the bounds ----
AnyPairs == (0..MaxEnd) \X (0..MaxEnd)

AnyScenes == UNION {[1..m -> AnyPairs] : m \in 0..MaxLen}

FallbackResults ==
    {make_sequential_scenes(o, n, d) :
        o \in ProbeOutcomes, n \in 0..SmallN, d \in 0..MaxDur}

InitSelect ==
    /\ pc = "select"
    /\ files = {}
    /\ short_dur = 0
    /\ Blank
    /\ \E s \in AnyScenes \cup FallbackResults, n \in NChoices \cup {DEFAULT_N} :
          /\ scenes = s
          /\ n_shorts = n

NextSelect == Select

SpecSelect == InitSelect /\ [][NextSelect]_vars

\* ---- the fallback segmenter alone ----
InitSeq ==
    /\ pc = "fallback"
    /\ files = {}
    /\ scenes = <<>>
    /\ Blank
    /\ n_shorts \in NChoices \cup {DEFAULT_N}
    /\ short_dur \in DurChoices \cup {DEFAULT_DUR}

NextSeq == Fallback

SpecSeq == InitSeq /\ [][NextSeq]_vars

\* ---- properties ----
Selected == pc \in {"render", "done"} \/ (pc = "fault" /\ failed # 0)

Probed == probe.status # "none"

ProbeFailed == probe.status \in {"exec_error", "parse_error"}

\* the whole seconds the fallback works with: int(probed duration)
TotalDuration == Trunc(get_video_length_seconds(probe))

\* C1: pick_top_scenes(intervals, n) returns exactly min(n, len(intervals))
\* intervals, for every integer n that the prompt can deliver.  A result has
\* no negative size, so a count below zero asks for no interval at all.
C1_SelectionSize == Selected => Len(chosen) = Min(Max(n_shorts, 0), Len(scenes))

\* C2: at every point of a run the number of render jobs started exceeds
\* neither the requested short count (no job at all for a count below zero)
\* nor the number of available intervals.
C2_JobsBounded == Len(jobs) <= Max(n_shorts, 0) /\ Len(jobs) <= Len(scenes)

\* C3 as stated: for non-negative count and clip length the fallback returns
\* count intervals with start_i = i * clipLength,
\* end_i = min(start_i + clipLength, totalDuration), and start_i < end_i
\* whenever totalDuration > start_i.
C3_SequentialAsStated ==
    (pc = "select" /\ Probed /\ n_shorts >= 0 /\ short_dur >= 0) =>
        /\ Len(scenes) = n_shorts
        /\ \A k \in 1..Len(scenes) :
              LET start == (k - 1) * short_dur
              IN  /\ scenes[k][1] = start * Tick
                  /\ scenes[k][2] = Min(start + short_dur, TotalDuration) * Tick
                  /\ (TotalDuration > start => scenes[k][1] < scenes[k][2])

\* C3 amended: the same, with totalDuration the probed duration truncated to
\* whole seconds and start_i < end_i whenever totalDuration > start_i and the
\* clip length is positive.
C3_Sequential ==
    (pc = "select" /\ Probed /\ n_shorts >= 0 /\ short_dur >= 0) =>
        /\ Len(scenes) = n_shorts
        /\ \A k \in 1..Len(scenes) :
              LET start == (k - 1) * short_dur
              IN  /\ scenes[k][1] = start * Tick
                  /\ scenes[k][2] = Min(start + short_dur, TotalDuration) * Tick
                  /\ (TotalDuration > start /\ short_dur > 0
                        => scenes[k][1] < scenes[k][2])

\* a fallback result with a full interval, one cut short by the end of the
\* video and one that starts behind it
C3_Witness ==
    /\ pc = "select"
    /\ probe.status = "ok"
    /\ short_dur > 0
    /\ Len(scenes) >= 3
    /\ \E k \in 1..Len(scenes) :
          /\ scenes[k][1] < scenes[k][2]
          /\ scenes[k][2] = TotalDuration * Tick
          /\ scenes[k][2] < scenes[k][1] + short_dur * Tick
    /\ \E k \in 1..Len(scenes) : scenes[k][2] = scenes[k][1] + short_dur * Tick
    /\ \E k \in 1..Len(scenes) : scenes[k][1] > TotalDuration * Tick

\* C4: when the duration probe fails, every interval of the fallback is
\* degenerate zero-length: end_i = start_i for every i.
C4_ProbeFailureDegenerate ==
    (ProbeFailed /\ n_shorts >= 0 /\ short_dur >= 0) =>
        \A k \in 1..Len(scenes) : scenes[k][2] = scenes[k][1]

\* C5: if the encoder exits non-zero for job k, no job with a greater index
\* is started, the captured error text is reported, the run ends with the
\* fault, and the output files of jobs 1..k-1 stay as those jobs wrote them.
C5_RenderFaultAborts ==
    failed # 0 =>
        /\ pc = "fault"
        /\ ~ENABLED Next
        /\ ~running
        /\ Len(jobs) = failed
        /\ jobs[failed].status = "failed"
        /\ fault.kind = "CalledProcessError(ffmpeg)"
        /\ fault.returncode # 0
        /\ log[Len(log)] = [msg |-> "proc.stderr", job |-> failed]
        /\ \A k \in 1..(failed - 1) :
              [path |-> jobs[k].out, job |-> k, state |-> "complete"] \in files
        /\ \A f \in files : f.state = "partial" => f.job = failed

\* the third job faults after two files were written
C5_Witness ==
    /\ failed = 3
    /\ pc = "fault"
    /\ Cardinality(files) >= 2

\* the decimal value of a digit sequence
RECURSIVE DigitsValue(_)
DigitsValue(d) ==
    IF d = <<>> THEN 0 ELSE 10 * DigitsValue(SubSeq(d, 1, Len(d) - 1)) + d[Len(d)]

\* C6: the k-th job started renders the k-th interval of the selection and
\* writes short_<k, zero-padded to 2 digits>.mp4; job k+1 starts only after
\* job k has completed; no two jobs share a destination.
C6_SequentialNumbered ==
    /\ \A k \in 1..Len(jobs) :
          /\ jobs[k].index = k - 1
          /\ jobs[k].start = Trunc(chosen[k][1])
          /\ jobs[k].out.dir = "shorts"
          /\ jobs[k].out.stem = "short_"
          /\ jobs[k].out.ext = ".mp4"
          /\ DigitsValue(jobs[k].out.digits) = k
          /\ Len(jobs[k].out.digits) = (IF k < 100 THEN 2 ELSE 3)
          /\ \A d \in 1..Len(jobs[k].out.digits) : jobs[k].out.digits[d] \in 0..9
          /\ (k < Len(jobs) => jobs[k].status = "done")
    /\ \A k, m \in 1..Len(jobs) : k # m => jobs[k].out # jobs[m].out
    /\ running <=> (jobs # <<>> /\ jobs[Len(jobs)].status = "running")

\* ten jobs are done and the eleventh, short_11.mp4, is running
C6_Witness ==
    /\ Len(jobs) = 11
    /\ running
    /\ jobs[10].out.digits = <<1, 0>>
    /\ jobs[9].out.digits = <<0, 9>>
    /\ chosen[1] # chosen[2]

\* C7: two intervals of equal length appear in the selection in the order
\* they had in the input: the selection is the input read through a map of
\* positions that is increasing on intervals of equal length.
C7_StableTies ==
    pc = "render" =>
        \E f \in [1..Len(chosen) -> 1..Len(scenes)] :
            /\ \A a \in 1..Len(chosen) : chosen[a] = scenes[f[a]]
            /\ \A a, b \in 1..Len(chosen) :
                  /\ (a # b => f[a] # f[b])
                  /\ (a < b /\ SceneKey(chosen[a]) = SceneKey(chosen[b]) => f[a] < f[b])

\* two different intervals tie, and a longer one that came after them in the
\* input has moved in front of them
C7_Witness ==
    /\ pc = "render"
    /\ Len(scenes) = 3
    /\ Len(chosen) = 3
    /\ SceneKey(scenes[1]) = SceneKey(scenes[2])
    /\ scenes[1] # scenes[2]
    /\ SceneKey(scenes[3]) > SceneKey(scenes[1])
    /\ chosen = <<scenes[3], scenes[1], scenes[2]>>

\* C8: in the selection, an interval is at least as long as every interval
\* behind it, degenerate intervals included.
C8_DescendingLength ==
    pc = "render" =>
        \A a, b \in 1..Len(chosen) :
            a < b => SceneKey(chosen[a]) >= SceneKey(chosen[b])

\* an input in ascending order of length, with an interval of negative
\* length, comes out reordered
C8_Witness ==
    /\ pc = "render"
    /\ Len(scenes) = 3
    /\ Len(chosen) >= 2
    /\ SceneKey(scenes[1]) < 0
    /\ SceneKey(scenes[1]) < SceneKey(scenes[2])
    /\ SceneKey(scenes[2]) < SceneKey(scenes[3])
    /\ chosen[1] = scenes[3]

\* C9: pick_top_scenes is idempotent for a fixed n: selecting again from the
\* selection, with the same n, gives the selection.
C9_Idempotent == Selected => pick_top_scenes(chosen, n_shorts) = chosen

\* C10: every job takes from its interval only the start, truncated to a
\* whole second; its duration is the configured clip length whatever the
\* interval's end is.
C10_StartOnly ==
    \A k \in 1..Len(jobs) :
        /\ jobs[k].start = Trunc(chosen[k][1])
        /\ jobs[k].start * Tick <= chosen[k][1]
        /\ chosen[k][1] < (jobs[k].start + 1) * Tick
        /\ jobs[k].duration = short_dur

\* one job's window ends behind its interval's end, another's before it, and
\* a start was truncated
C10_Witness ==
    /\ \E k \in 1..Len(jobs) :
          (jobs[k].start + jobs[k].duration) * Tick > chosen[k][2]
    /\ \E k \in 1..Len(jobs) :
          /\ jobs[k].duration > 0
          /\ (jobs[k].start + jobs[k].duration) * Tick < chosen[k][2]
    /\ \E k \in 1..Len(jobs) : jobs[k].start * Tick < chosen[k][1]
====
